---- MODULE Spec2Model ----
(***************************************************************************)
(* Model of the yt-mood backend: the analyzeVideo orchestration            *)
(* (AnalyzeService), chunk acquisition and cleanup (VideoService), the     *)
(* BullMQ chunk queue with its worker (ChunkProcessor), the two job        *)
(* completion strategies, the Redis result cache (CacheService) and the    *)
(* aggregation of chunk results (AggregationService).                      *)
(***************************************************************************)
EXTENDS Integers, Sequences, FiniteSets, TLC

(* ----------------------------- bounds ---------------------------------- *)
MaxChunks == 2        \* longest video considered, in chunks
TimeoutTicks == 2     \* the job timeout, counted in poll intervals
MaxDamage == 1        \* chunk files lost or truncated by the environment per run
MaxResults == 3       \* longest list of chunk results handed to the aggregation

(* ------------------------- program constants --------------------------- *)
CHUNK_DURATION_SECONDS == 15
CACHE_DEFAULT_TTL_SECONDS == 86400
Concurrency == 1      \* @Processor without a concurrency option

Urls == {"bad", "noId", "urlA"}
VideoIds == {"vidA", "vidB"}
Moods == {"happy", "sad"}
Confidences == {90}
FrameImages == {"img"}
FileStates == {"absent", "empty", "ok"}
ChunkIdx == 0 .. (MaxChunks - 1)
Durations == {0} \cup {CHUNK_DURATION_SECONDS * k - 5 : k \in 1 .. MaxChunks}

\* poll intervals observed after the jobs were submitted
MaxClock == TimeoutTicks + 1

Min(a, b) == IF a < b THEN a ELSE b

None == [some |-> FALSE]
Some(v) == [some |-> TRUE, v |-> v]

(* --------------------------- YoutubeUtil ------------------------------- *)
isValidUrl(u) == u # "bad"

getVideoId(u) == IF u = "urlA" THEN Some("vidA") ELSE None

\* variant: a validation that falls back to an id when none can be extracted
validateAndExtractVideoId_Default(u) ==
    IF getVideoId(u).some THEN getVideoId(u) ELSE Some("vidA")

\* the video id of a valid URL; None when InvalidYouTubeUrlException is thrown
validateAndExtractVideoId(u) ==
    IF ~isValidUrl(u) THEN None
    ELSE IF ~getVideoId(u).some THEN None
    ELSE getVideoId(u)

\* variant: the number of whole chunk lengths in the duration
calculateChunkCount_Floor(d) == d \div CHUNK_DURATION_SECONDS

\* Math.ceil(durationSeconds / 15)
calculateChunkCount(d) == (d + CHUNK_DURATION_SECONDS - 1) \div CHUNK_DURATION_SECONDS

(* ------------------------ AggregationService --------------------------- *)
TimelineEntry(r) ==
    IF r.frameImage # "none"
    THEN [start |-> r.startTime, end |-> r.endTime, mood |-> r.moodResult.primary_mood,
          confidence |-> r.moodResult.confidence, frameImage |-> r.frameImage]
    ELSE [start |-> r.startTime, end |-> r.endTime, mood |-> r.moodResult.primary_mood,
          confidence |-> r.moodResult.confidence]

RECURSIVE MoodKeys(_, _)
\* keys of moodScores in insertion order
MoodKeys(rs, k) ==
    IF k > Len(rs) THEN <<>>
    ELSE LET m == rs[k].moodResult.primary_mood
             rest == MoodKeys(rs, k + 1)
         IN <<m>> \o SelectSeq(rest, LAMBDA x : x # m)

RECURSIVE MoodScore(_, _, _)
MoodScore(rs, m, k) ==
    IF k > Len(rs) THEN 0
    ELSE (IF rs[k].moodResult.primary_mood = m THEN rs[k].moodResult.confidence ELSE 0)
         + MoodScore(rs, m, k + 1)

RECURSIVE PickMax(_, _, _, _, _)
PickMax(rs, keys, k, maxScore, overallMood) ==
    IF k > Len(keys) THEN overallMood
    ELSE LET score == MoodScore(rs, keys[k], 1)
         IN IF score > maxScore
            THEN PickMax(rs, keys, k + 1, score, keys[k])
            ELSE PickMax(rs, keys, k + 1, maxScore, overallMood)

calculateOverallMood(rs) == PickMax(rs, MoodKeys(rs, 1), 1, 0, "neutral")

RECURSIVE Gcd(_, _)
Gcd(a, b) == IF b = 0 THEN a ELSE Gcd(b, a % b)

\* the number a / b (b > 0) as a fraction in lowest terms
Quotient(a, b) == [num |-> a \div Gcd(a, b), den |-> b \div Gcd(a, b)]

\* the loop counting the adjacent results whose moods differ
Transitions(rs) ==
    Cardinality({i \in 2 .. Len(rs) :
                    rs[i - 1].moodResult.primary_mood # rs[i].moodResult.primary_mood})

\* variant: the quotient without the guard on the length
calculateEmotionalVariability_NoGuard(rs) ==
    [num |-> Transitions(rs), den |-> Len(rs) - 1]

\* variant: the transitions divided by the number of results
calculateEmotionalVariability_PerResult(rs) ==
    IF Len(rs) <= 1 THEN Quotient(0, 1)
    ELSE Quotient(Transitions(rs), Len(rs))

\* 0 for at most one result, else transitions / (length - 1)
calculateEmotionalVariability(rs) ==
    IF Len(rs) <= 1 THEN Quotient(0, 1)
    ELSE Quotient(Transitions(rs), Len(rs) - 1)

RECURSIVE InsertByStart(_, _)
InsertByStart(r, rs) ==
    IF rs = <<>> THEN <<r>>
    ELSE IF r.startTime < Head(rs).startTime THEN <<r>> \o rs
    ELSE <<Head(rs)>> \o InsertByStart(r, Tail(rs))

RECURSIVE SortedByStart(_)
SortedByStart(rs) ==
    IF rs = <<>> THEN <<>>
    ELSE InsertByStart(rs[Len(rs)], SortedByStart(SubSeq(rs, 1, Len(rs) - 1)))

\* variant: a timeline ordered by start time
aggregateResults_SortedByStart(rs) ==
    [overall_mood |-> calculateOverallMood(rs),
     mood_timeline |-> [i \in 1 .. Len(rs) |-> TimelineEntry(SortedByStart(rs)[i])],
     emotional_variability |-> calculateEmotionalVariability(rs)]

aggregateResults(rs) ==
    [overall_mood |-> calculateOverallMood(rs),
     mood_timeline |-> [i \in 1 .. Len(rs) |-> TimelineEntry(rs[i])],
     emotional_variability |-> calculateEmotionalVariability(rs)]

(* ------------------------------- state -------------------------------- *)
VARIABLES
    redis,            \* CacheService.redis: "null" or "client"
    store,            \* content of the Redis cache, by video id
    queueEvents,      \* AnalyzeService.queueEvents # null
    pc,               \* position of the current analyzeVideo call
    videoId,          \* its video id
    cacheRead,        \* "hit" when the backend answered its cache check with a stored
                      \* value, "miss" when the check ended otherwise
    error,            \* the error it caught
    result,           \* what it returned or threw
    calls,            \* which collaborators it has called
    fs,               \* the temp directory of the run and the files in it
    dc,               \* locals of downloadAndChunk
    chunks,           \* analyzeVideo's chunks
    verifiedChunks,   \* analyzeVideo's verifiedChunks
    damage,           \* chunk files damaged by the environment in this run
    jobs,             \* the jobs of the run in the order of the jobs array
    waiters,          \* one promise per job, same order
    polled,           \* polling mode: the waiter is pending and its interval
                      \* callback is not due (it has run in the current interval)
    pall,             \* the Promise.all over the waiters
    clock,            \* poll intervals elapsed since the waiters were created
    results,          \* the array Promise.all resolved with
    aggregated,       \* the aggregated result
    cacheWriteFailed, \* the backend raised an error in the run's cache write
    outOfOrder,       \* a job finished before a job submitted earlier
    youtubeUrl,       \* the argument of the current analyzeVideo call
    written,          \* by video id: the value last stored and still live
    conc,             \* two analyzeVideo calls in flight at once: their locals, their
                      \* temp directories and their jobs
    proc              \* one run of ChunkProcessor.process: its position, its locals, the
                      \* frame directory and the files in it

vars == <<redis, store, queueEvents, pc, videoId, cacheRead, error, result, calls,
          fs, dc, chunks, verifiedChunks, damage, jobs, waiters, polled, pall, clock,
          results, aggregated, cacheWriteFailed, outOfOrder, youtubeUrl, written, conc, proc>>

cacheVars == <<redis, store>>
queueVars == <<jobs, waiters, polled, pall, clock>>
fileVars == <<fs, dc, chunks, verifiedChunks, damage>>

(* ---------------------------- CacheService ----------------------------- *)
NoEntry == [has |-> FALSE]

\* a JSON number written and read back is the same number: 0/1 and 0/2 are both 0
JSONnumber(q) == LET g == Gcd(q.num, q.den) IN <<q.num \div g, q.den \div g>>

EntryToJSON(e) ==
    IF "frameImage" \in DOMAIN e
    THEN <<e.start, e.end, e.mood, e.confidence, e.frameImage>>
    ELSE <<e.start, e.end, e.mood, e.confidence>>

EntryFromJSON(t) ==
    IF Len(t) = 5
    THEN [start |-> t[1], end |-> t[2], mood |-> t[3], confidence |-> t[4], frameImage |-> t[5]]
    ELSE [start |-> t[1], end |-> t[2], mood |-> t[3], confidence |-> t[4]]

JSONstringify(r) ==
    [overall |-> r.overall_mood,
     timeline |-> [i \in 1 .. Len(r.mood_timeline) |-> EntryToJSON(r.mood_timeline[i])],
     variability |-> JSONnumber(r.emotional_variability)]

JSONparse(s) ==
    [overall_mood |-> s.overall,
     mood_timeline |-> [i \in 1 .. Len(s.timeline) |-> EntryFromJSON(s.timeline[i])],
     emotional_variability |-> [num |-> s.variability[1], den |-> s.variability[2]]]

\* redis.status is the client's view of its connection; it changes with the
\* network, so each read of it is an input
Statuses == {"ready", "reconnecting"}

\* outcomes of one backend command: FALSE = it answers, TRUE = it raises an error
BackendErrors(status) == IF status = "ready" THEN BOOLEAN ELSE {TRUE}

\* variant: availability judged by the client object alone
isCacheAvailable_AnyStatus(status) == redis # "null"

isCacheAvailable(status) == redis # "null" /\ status = "ready"

getCachedResult(id, err) ==
    [threw |-> FALSE,
     value |-> IF redis = "null" \/ err \/ ~store[id].has
               THEN None
               ELSE Some(JSONparse(store[id].json))]

\* variant: a setCachedResult whose key leaves the video id out
setCachedResult_SharedKey(id, value, ttl, err) ==
    [threw |-> FALSE,
     store |-> IF redis = "null" \/ err
               THEN store
               ELSE [i \in VideoIds |-> [has |-> TRUE, json |-> JSONstringify(value),
                                         ttl |-> ttl]]]

\* variant: a setCachedResult that lets the backend's error escape
setCachedResult_Rethrow(id, value, ttl, err) ==
    [threw |-> redis # "null" /\ err,
     store |-> IF redis = "null" \/ err
               THEN store
               ELSE [store EXCEPT ![id] = [has |-> TRUE, json |-> JSONstringify(value),
                                           ttl |-> ttl]]]

setCachedResult(id, value, ttl, err) ==
    [threw |-> FALSE,
     store |-> IF redis = "null" \/ err
               THEN store
               ELSE [store EXCEPT ![id] = [has |-> TRUE, json |-> JSONstringify(value),
                                           ttl |-> ttl]]]

\* variant: an invalidateCache that deletes the key without the prefix
invalidateCache_WrongKey(id, err) == [threw |-> FALSE, store |-> store]

invalidateCache(id, err) ==
    [threw |-> FALSE,
     store |-> IF redis = "null" \/ err THEN store ELSE [store EXCEPT ![id] = NoEntry]]

getCacheStats(status, err) ==
    IF redis = "null" \/ status # "ready" \/ err
    THEN [threw |-> FALSE, available |-> FALSE, keys |-> 0]
    ELSE [threw |-> FALSE, available |-> TRUE,
          keys |-> Cardinality({id \in VideoIds : store[id].has})]

(* ----------------------- VideoService, the files ------------------------ *)
FreshFs ==
    [dir |-> FALSE, source |-> "absent",
     video |-> [i \in ChunkIdx |-> "absent"], audio |-> [i \in ChunkIdx |-> "absent"]]

\* something the run created is still on disk
ArtifactsLeft(f) ==
    \/ f.dir
    \/ f.source # "absent"
    \/ \E i \in ChunkIdx : f.video[i] # "absent" \/ f.audio[i] # "absent"

Chunk(i, duration) ==
    [index |-> i,
     startTime |-> i * CHUNK_DURATION_SECONDS,
     endTime |-> Min(i * CHUNK_DURATION_SECONDS + CHUNK_DURATION_SECONDS, duration)]

RemoveAt(list, k) == [n \in 1 .. (Len(list) - 1) |-> IF n < k THEN list[n] ELSE list[n + 1]]

RECURSIVE VerifyExtracted(_, _, _)
\* the for..of loop over chunks that splices the failing chunk out of the array it iterates
VerifyExtracted(list, k, f) ==
    IF k > Len(list) THEN list
    ELSE IF f.video[list[k].index] = "absent" \/ f.audio[list[k].index] = "absent"
         THEN VerifyExtracted(RemoveAt(list, k), k + 1, f)
         ELSE VerifyExtracted(list, k + 1, f)

\* TempFileUtil.cleanup of each chunk file, then of the parent directory (fs.remove)
cleanupChunks(chs, f) ==
    LET listed == {chs[k].index : k \in 1 .. Len(chs)}
        files == [f EXCEPT !.video = [i \in ChunkIdx |-> IF i \in listed THEN "absent" ELSE @[i]],
                           !.audio = [i \in ChunkIdx |-> IF i \in listed THEN "absent" ELSE @[i]]]
    IN IF Len(chs) > 0 THEN FreshFs ELSE files

(* ------------------- AnalyzeService: chunk verification ----------------- *)
ChunkBad(c, f) == f.video[c.index] # "ok" \/ f.audio[c.index] # "ok"

ChunkError(c, f) ==
    IF f.video[c.index] = "absent" \/ f.audio[c.index] = "absent"
    THEN <<"Chunk files are missing", ToString(c.index)>>
    ELSE <<"Chunk has empty files", ToString(c.index)>>

\* variant: a verification that drops the failing chunks instead of throwing
verifyChunks_Drop(chs, f) ==
    [threw |-> FALSE, reason |-> <<>>,
     verified |-> SelectSeq(chs, LAMBDA c : ~ChunkBad(c, f))]

\* the loop throws at the first chunk whose files are missing or empty
verifyChunks(chs, f) ==
    IF \E k \in 1 .. Len(chs) : ChunkBad(chs[k], f)
    THEN LET first == CHOOSE k \in 1 .. Len(chs) :
                          /\ ChunkBad(chs[k], f)
                          /\ \A n \in 1 .. (k - 1) : ~ChunkBad(chs[n], f)
         IN [threw |-> TRUE, reason |-> ChunkError(chs[first], f), verified |-> <<>>]
    ELSE [threw |-> FALSE, reason |-> <<>>, verified |-> chs]

(* ------------------------- ChunkProcessor ------------------------------- *)
Terminal(job) == job.state \in {"completed", "failed"}

ActiveJobs == {k \in 1 .. Len(jobs) : jobs[k].state = "active"}

\* variant: a scheduler that only ever takes the first job
CanStart_FirstOnly(j) ==
    jobs[j].state = "waiting" /\ Cardinality(ActiveJobs) < Concurrency /\ j = 1

\* variant: a scheduler that takes failed jobs again (attempts > 1)
CanStart_RetryFailed(j) ==
    jobs[j].state \in {"waiting", "failed"} /\ Cardinality(ActiveJobs) < Concurrency

\* the worker takes a waiting job while fewer than Concurrency jobs are active
CanStart(j) == jobs[j].state = "waiting" /\ Cardinality(ActiveJobs) < Concurrency

Failed(job, reason) ==
    [job EXCEPT !.state = "failed", !.failedReason = reason]

\* ChunkProcessor.process: frameCount frames were extracted, mood is the
\* inference backend's answer ("error" when it fails), img the representative frame
process(job, f, frameCount, mood, conf, img) ==
    IF f.video[job.chunk.index] = "absent"
    THEN Failed(job, <<"Video chunk file does not exist">>)
    ELSE IF frameCount = 0
    THEN Failed(job, <<"Failed to extract frames from chunk">>)
    ELSE IF mood = "error"
    THEN Failed(job, <<"Mood analysis failed">>)
    ELSE [job EXCEPT !.state = "completed",
                     !.returnvalue = Some([chunkIndex |-> job.chunk.index,
                                           startTime |-> job.chunk.startTime,
                                           endTime |-> job.chunk.endTime,
                                           moodResult |-> [primary_mood |-> mood,
                                                           confidence |-> conf],
                                           frameImage |-> img])]

(* --------------------- the two completion strategies -------------------- *)
Pending == [state |-> "pending", value |-> None, reason |-> <<>>]
Resolved(v) == [state |-> "resolved", value |-> v, reason |-> <<>>]
Rejected(r) == [state |-> "rejected", value |-> None, reason |-> r]

\* job.waitUntilFinished(queueEvents): no ttl is passed
waitUntilFinished(job) ==
    IF job.state = "completed" THEN Resolved(job.returnvalue)
    ELSE IF job.state = "failed" THEN Rejected(job.failedReason)
    ELSE Pending

\* variant: a poll that takes every state other than completed for a failure
pollJob_NotCompletedIsFailed(job, err) ==
    IF err THEN [state |-> "rejected", value |-> [some |-> FALSE], reason |-> <<"getState failed">>]
    ELSE IF job.state = "completed"
    THEN [state |-> "resolved", value |-> job.returnvalue, reason |-> <<>>]
    ELSE [state |-> "rejected", value |-> [some |-> FALSE],
          reason |-> <<"Job failed: ">> \o job.failedReason]

\* one run of the setInterval callback of waitForJobCompletion; job.returnvalue
\* and job.failedReason are taken to be what the worker stored for the job
pollJob(job, err) ==
    IF err THEN Rejected(<<"getState failed">>)
    ELSE IF job.state = "completed" THEN Resolved(job.returnvalue)
    ELSE IF job.state = "failed" THEN Rejected(<<"Job failed: ">> \o job.failedReason)
    ELSE Pending

jobTimeout == Rejected(<<"Job timeout after 5 minutes">>)

\* variant: a wait that settles only once every waiter has settled
promiseAll_AllSettled(p, ws, j) ==
    IF p.state # "pending" THEN p
    ELSE IF \E k \in 1 .. Len(ws) : ws[k].state = "pending" THEN p
    ELSE IF \E k \in 1 .. Len(ws) : ws[k].state = "rejected"
    THEN [state |-> "rejected",
          reason |-> ws[CHOOSE k \in 1 .. Len(ws) : ws[k].state = "rejected"].reason]
    ELSE [state |-> "resolved", reason |-> <<>>]

\* Promise.all once waiter j has settled: the first rejection rejects it, the
\* last resolution resolves it
promiseAll(p, ws, j) ==
    IF p.state # "pending" THEN p
    ELSE IF ws[j].state = "rejected" THEN [state |-> "rejected", reason |-> ws[j].reason]
    ELSE IF \A k \in 1 .. Len(ws) : ws[k].state = "resolved"
    THEN [state |-> "resolved", reason |-> <<>>]
    ELSE p

\* variant: a result array in the reverse of the input order
promiseAllValues_Reversed(ws) == [k \in 1 .. Len(ws) |-> ws[Len(ws) + 1 - k].value.v]

\* variant: a result array in the order the promises settled, last one first
promiseAllValues_Rotated(ws) ==
    [k \in 1 .. Len(ws) |-> ws[IF k = 1 THEN Len(ws) ELSE k - 1].value.v]

\* the array Promise.all resolves with: one value per promise, in input order
promiseAllValues(ws) == [k \in 1 .. Len(ws) |-> ws[k].value.v]

(* ------------------------------- Init ---------------------------------- *)
\* Redis outlives the process: the entry an earlier analysis of the video left
EarlierResult ==
    aggregateResults(<<[chunkIndex |-> 0, startTime |-> 0, endTime |-> 10,
                        moodResult |-> [primary_mood |-> "happy", confidence |-> 90],
                        frameImage |-> "img"]>>)

EarlierEntry ==
    [has |-> TRUE, json |-> JSONstringify(EarlierResult), ttl |-> CACHE_DEFAULT_TTL_SECONDS]

NoResult == [kind |-> "none", value |-> None, reason |-> <<>>]
Returned(v) == [kind |-> "returned", value |-> Some(v), reason |-> <<>>]
Thrown(r) == [kind |-> "thrown", value |-> None, reason |-> r]

NoCalls == [download |-> FALSE, verify |-> FALSE, submit |-> FALSE,
            cacheWrite |-> FALSE, cleanup |-> FALSE]
NoRead == "none"
NoDc == [duration |-> 0, chunkCount |-> 0, i |-> 0, chunks |-> <<>>]
PallPending == [state |-> "pending", reason |-> <<>>]
NoConc == [run |-> <<>>]
NoProc == [pc |-> "none"]

Init ==
    /\ redis \in {"null", "client"}         \* onModuleInit: ping failed or succeeded
    /\ store \in {[id \in VideoIds |-> NoEntry],
                  [id \in VideoIds |-> IF id = "vidA" THEN EarlierEntry ELSE NoEntry]}
    /\ redis = "null" => store = [id \in VideoIds |-> NoEntry]   \* out of reach for good
    /\ queueEvents \in BOOLEAN              \* initializeQueueEvents succeeded or threw
    /\ pc = "idle"
    /\ videoId = None
    /\ cacheRead = NoRead
    /\ error = <<>>
    /\ result = NoResult
    /\ calls = NoCalls
    /\ fs = FreshFs
    /\ dc = NoDc
    /\ chunks = <<>>
    /\ verifiedChunks = <<>>
    /\ damage = 0
    /\ jobs = <<>>
    /\ waiters = <<>>
    /\ polled = <<>>
    /\ pall = PallPending
    /\ clock = 0
    /\ results = <<>>
    /\ aggregated = None
    /\ cacheWriteFailed = FALSE
    /\ outOfOrder = FALSE
    /\ youtubeUrl = "none"
    /\ written = [id \in VideoIds |-> IF store[id].has THEN Some(EarlierResult) ELSE None]
    /\ conc = NoConc
    /\ proc = NoProc

(* ------------------------ AnalyzeService.analyzeVideo ------------------- *)
\* a request arrives: URL validation and video id extraction
Start(u) ==
    /\ pc = "idle"
    /\ youtubeUrl' = u
    /\ IF ~validateAndExtractVideoId(u).some
       THEN /\ pc' = "done"
            /\ result' = Thrown(<<"Invalid YouTube URL", u>>)
            /\ videoId' = None
       ELSE /\ pc' = "cacheCheck"
            /\ result' = NoResult
            /\ videoId' = validateAndExtractVideoId(u)
    /\ UNCHANGED <<redis, store, queueEvents, written, conc, proc, cacheRead, error, calls, fileVars, queueVars,
                   results, aggregated, cacheWriteFailed, outOfOrder>>

\* variant: a cache check that never takes the cached value
CacheHit_Ignored(avail, got) == FALSE

\* if (isCacheAvailable()) { cachedResult = await getCachedResult(..); if (cachedResult) ..
CacheHit(avail, got) == avail /\ got.value.some

\* Step 0: the cache check
CacheCheck(status, err) ==
    /\ pc = "cacheCheck"
    /\ LET avail == isCacheAvailable(status)
           got == getCachedResult(videoId.v, err)
       IN /\ cacheRead' = IF redis # "null" /\ status = "ready" /\ ~err /\ store[videoId.v].has
                          THEN "hit"
                          ELSE "miss"
          /\ IF avail /\ got.threw
             THEN /\ pc' = "done"
                  /\ result' = Thrown(<<"Cache read failed">>)
             ELSE IF CacheHit(avail, got)
             THEN /\ pc' = "done"
                  /\ result' = Returned(got.value.v)
             ELSE /\ pc' = "download"
                  /\ UNCHANGED result
    /\ UNCHANGED <<redis, store, queueEvents, youtubeUrl, written, conc, proc, videoId, error, calls, fileVars,
                   queueVars, results, aggregated, cacheWriteFailed, outOfOrder>>

Throw(reason) ==
    /\ pc' = "catch"
    /\ error' = reason

\* downloadAndChunk up to the extraction loop: video info, duration, temp
\* directory, download of the source video and its checks
Acquire(outcome, d) ==
    /\ pc = "download"
    /\ calls' = [calls EXCEPT !.download = TRUE]
    /\ CASE outcome = "infoFail" ->
              /\ Throw(<<"Failed to get video info">>)
              /\ UNCHANGED <<fs, dc>>
         [] outcome # "infoFail" /\ d <= 0 ->
              /\ Throw(<<"Invalid video duration. Cannot process this video.">>)
              /\ UNCHANGED <<fs, dc>>
         [] outcome = "downloadFail" /\ d > 0 ->
              /\ fs' = [fs EXCEPT !.dir = TRUE]
              /\ Throw(<<"Failed to download video at any quality">>)
              /\ UNCHANGED dc
         [] outcome = "notCreated" /\ d > 0 ->
              /\ fs' = [fs EXCEPT !.dir = TRUE]
              /\ Throw(<<"Video download failed: file not created">>)
              /\ UNCHANGED dc
         [] outcome = "emptyFile" /\ d > 0 ->
              /\ fs' = [fs EXCEPT !.dir = TRUE, !.source = "empty"]
              /\ Throw(<<"Video download failed: file is empty">>)
              /\ UNCHANGED dc
         [] outcome = "ok" /\ d > 0 ->
              /\ fs' = [fs EXCEPT !.dir = TRUE, !.source = "ok"]
              /\ dc' = [duration |-> d, chunkCount |-> calculateChunkCount(d),
                        i |-> 0, chunks |-> <<>>]
              /\ pc' = "extract"
              /\ UNCHANGED error
    /\ UNCHANGED <<redis, store, queueEvents, youtubeUrl, written, conc, proc, videoId, cacheRead, result, chunks,
                   verifiedChunks, damage, queueVars, results, aggregated, cacheWriteFailed, outOfOrder>>

\* variant: an extraction loop that gives up at the first chunk it cannot cut
ExtractChunk_FailFast(ok) ==
    /\ pc = "extract"
    /\ dc.i < dc.chunkCount
    /\ IF ok
       THEN /\ fs' = [fs EXCEPT !.video[dc.i] = "ok", !.audio[dc.i] = "ok"]
            /\ dc' = [dc EXCEPT !.i = @ + 1,
                                !.chunks = Append(@, Chunk(dc.i, dc.duration))]
            /\ UNCHANGED <<pc, error>>
       ELSE /\ fs' = [fs EXCEPT !.video[dc.i] = "absent", !.audio[dc.i] = "absent"]
            /\ dc' = [dc EXCEPT !.i = @ + 1]
            /\ Throw(<<"Failed to extract chunk">>)
    /\ UNCHANGED <<redis, store, queueEvents, youtubeUrl, written, conc, proc, videoId,
                   cacheRead, result, calls, chunks, verifiedChunks, damage, queueVars,
                   results, aggregated, cacheWriteFailed, outOfOrder>>

\* one iteration of the extraction loop: chunk dc.i is extracted, or its
\* extraction fails and its partial files are unlinked
ExtractChunk(ok) ==
    /\ pc = "extract"
    /\ dc.i < dc.chunkCount
    /\ IF ok
       THEN /\ fs' = [fs EXCEPT !.video[dc.i] = "ok", !.audio[dc.i] = "ok"]
            /\ dc' = [dc EXCEPT !.i = @ + 1,
                                !.chunks = Append(@, Chunk(dc.i, dc.duration))]
       ELSE /\ fs' = [fs EXCEPT !.video[dc.i] = "absent", !.audio[dc.i] = "absent"]
            /\ dc' = [dc EXCEPT !.i = @ + 1]
    /\ UNCHANGED <<redis, store, queueEvents, youtubeUrl, written, conc, proc, pc, videoId, cacheRead, error, result,
                   calls, chunks, verifiedChunks, damage, queueVars, results, aggregated,
                   cacheWriteFailed, outOfOrder>>

\* downloadAndChunk after the extraction loop: the two emptiness checks around
\* the verification loop, removal of the source video, return of the chunks
FinishChunking ==
    /\ pc = "extract"
    /\ dc.i = dc.chunkCount
    /\ LET kept == VerifyExtracted(dc.chunks, 1, fs)
       IN /\ fs' = [fs EXCEPT !.source = "absent"]
          /\ IF dc.chunks = <<>>
             THEN /\ Throw(<<"Failed to extract any chunks from the video">>)
                  /\ UNCHANGED <<dc, chunks>>
             ELSE IF kept = <<>>
             THEN /\ Throw(<<"No valid chunks were extracted">>)
                  /\ dc' = [dc EXCEPT !.chunks = kept]
                  /\ UNCHANGED chunks
             ELSE /\ dc' = [dc EXCEPT !.chunks = kept]
                  /\ chunks' = kept
                  /\ pc' = "verify"
                  /\ UNCHANGED error
    /\ UNCHANGED <<redis, store, queueEvents, youtubeUrl, written, conc, proc, videoId, cacheRead, result, calls,
                   verifiedChunks, damage, queueVars, results, aggregated, cacheWriteFailed, outOfOrder>>

\* the verification loop of analyzeVideo over the returned chunks
VerifyChunks ==
    /\ pc = "verify"
    /\ calls' = [calls EXCEPT !.verify = TRUE]
    /\ LET v == verifyChunks(chunks, fs)
       IN IF v.threw
          THEN /\ Throw(v.reason)
               /\ UNCHANGED verifiedChunks
          ELSE /\ verifiedChunks' = v.verified
               /\ pc' = "submit"
               /\ UNCHANGED error
    /\ UNCHANGED <<redis, store, queueEvents, youtubeUrl, written, conc, proc, videoId, cacheRead, result, fs, dc,
                   chunks, damage, queueVars, results, aggregated, cacheWriteFailed, outOfOrder>>

NewJob(c) == [chunk |-> c, state |-> "waiting", returnvalue |-> None, failedReason |-> <<>>]

\* Step 2: one job per verified chunk; Step 3 starts: one waiter per job
SubmitJobs ==
    /\ pc = "submit"
    /\ calls' = [calls EXCEPT !.submit = TRUE]
    /\ jobs' = [k \in 1 .. Len(verifiedChunks) |-> NewJob(verifiedChunks[k])]
    /\ waiters' = [k \in 1 .. Len(verifiedChunks) |-> Pending]
    /\ polled' = [k \in 1 .. Len(verifiedChunks) |-> ~queueEvents]
    /\ pall' = IF verifiedChunks = <<>>
               THEN [state |-> "resolved", reason |-> <<>>]
               ELSE PallPending
    /\ clock' = 0
    /\ pc' = "await"
    /\ UNCHANGED <<redis, store, queueEvents, youtubeUrl, written, conc, proc, videoId, cacheRead, error, result,
                   fileVars, results, aggregated, cacheWriteFailed, outOfOrder>>

\* Promise.all resolved: Step 4, aggregation
AwaitResolved ==
    /\ pc = "await"
    /\ pall.state = "resolved"
    /\ results' = promiseAllValues(waiters)
    /\ aggregated' = Some(aggregateResults(results'))
    /\ pc' = "cacheWrite"
    /\ UNCHANGED <<redis, store, queueEvents, youtubeUrl, written, conc, proc, videoId, cacheRead, error, result,
                   calls, fileVars, queueVars, cacheWriteFailed, outOfOrder>>

\* Promise.all rejected: control enters the catch block
AwaitRejected ==
    /\ pc = "await"
    /\ pall.state = "rejected"
    /\ Throw(pall.reason)
    /\ UNCHANGED <<redis, store, queueEvents, youtubeUrl, written, conc, proc, videoId, cacheRead, result, calls,
                   fileVars, queueVars, results, aggregated, cacheWriteFailed, outOfOrder>>

\* Step 5: the result is stored in the cache when the cache is available
CacheWrite(status, err) ==
    /\ pc = "cacheWrite"
    /\ IF isCacheAvailable(status)
       THEN LET w == setCachedResult(videoId.v, aggregated.v, CACHE_DEFAULT_TTL_SECONDS, err)
            IN /\ store' = w.store
               /\ written' = IF redis = "null" \/ err THEN written
                              ELSE [written EXCEPT ![videoId.v] = Some(aggregated.v)]
               /\ calls' = [calls EXCEPT !.cacheWrite = TRUE]
               /\ cacheWriteFailed' = err
               /\ IF w.threw
                  THEN Throw(<<"Cache write failed">>)
                  ELSE pc' = "cleanup" /\ UNCHANGED error
       ELSE /\ pc' = "cleanup"
            /\ UNCHANGED <<store, written, calls, cacheWriteFailed, error>>
    /\ UNCHANGED <<redis, queueEvents, youtubeUrl, conc, proc, videoId, cacheRead, result, fileVars,
                   queueVars, results, aggregated, outOfOrder>>

\* Step 6: cleanup of the chunks, then the result is returned
CleanupAndReturn ==
    /\ pc = "cleanup"
    /\ fs' = cleanupChunks(chunks, fs)
    /\ calls' = [calls EXCEPT !.cleanup = TRUE]
    /\ result' = Returned(aggregated.v)
    /\ pc' = "done"
    /\ UNCHANGED <<redis, store, queueEvents, youtubeUrl, written, conc, proc, videoId, cacheRead, error, dc, chunks,
                   verifiedChunks, damage, queueVars, results, aggregated, cacheWriteFailed, outOfOrder>>

\* the catch block: cleanup when chunks is not empty, then the error is rethrown
CatchAndRethrow ==
    /\ pc = "catch"
    /\ IF Len(chunks) > 0
       THEN /\ fs' = cleanupChunks(chunks, fs)
            /\ calls' = [calls EXCEPT !.cleanup = TRUE]
       ELSE UNCHANGED <<fs, calls>>
    /\ result' = Thrown(error)
    /\ pc' = "done"
    /\ UNCHANGED <<redis, store, queueEvents, youtubeUrl, written, conc, proc, videoId, cacheRead, error, dc, chunks,
                   verifiedChunks, damage, queueVars, results, aggregated, cacheWriteFailed, outOfOrder>>

(* ------------------------- the queue's worker --------------------------- *)
\* polling mode: every timer callback that is due has run (the callbacks that
\* are due run back to back, before the worker's next step is handled)
NoTimerDue ==
    queueEvents \/ \A j \in 1 .. Len(jobs) :
                      waiters[j].state = "pending" => polled[j] /\ clock < TimeoutTicks

\* queued -> active
WorkerStart(j) ==
    /\ j \in 1 .. Len(jobs)
    /\ CanStart(j)
    /\ NoTimerDue
    /\ jobs' = [jobs EXCEPT ![j].state = "active"]
    /\ UNCHANGED <<redis, store, queueEvents, youtubeUrl, written, conc, proc, pc, videoId, cacheRead, error, result,
                   calls, fileVars, waiters, polled, pall, clock, results, aggregated,
                   cacheWriteFailed, outOfOrder>>

\* active -> completed | failed: ChunkProcessor.process returns or throws
WorkerFinish(j, frameCount, mood, conf, img) ==
    /\ j \in 1 .. Len(jobs)
    /\ jobs[j].state = "active"
    /\ NoTimerDue
    /\ jobs' = [jobs EXCEPT ![j] = process(jobs[j], fs, frameCount, mood, conf, img)]
    /\ outOfOrder' = (outOfOrder \/ \E k \in 1 .. (j - 1) : ~Terminal(jobs[k]))
    /\ UNCHANGED <<redis, store, queueEvents, youtubeUrl, written, conc, proc, pc, videoId, cacheRead, error, result,
                   calls, fileVars, waiters, polled, pall, clock, results, aggregated,
                   cacheWriteFailed>>

(* ------------------------------ the waiters ----------------------------- *)
Settle(j, w) ==
    /\ waiters' = [waiters EXCEPT ![j] = w]
    /\ pall' = promiseAll(pall, waiters', j)

\* event-driven: the job's finished event settles job.waitUntilFinished
EventSettle(j) ==
    /\ queueEvents
    /\ j \in 1 .. Len(jobs)
    /\ waiters[j].state = "pending"
    /\ Terminal(jobs[j])
    /\ Settle(j, waitUntilFinished(jobs[j]))
    /\ UNCHANGED <<redis, store, queueEvents, youtubeUrl, written, conc, proc, pc, videoId, cacheRead, error, result,
                   calls, fileVars, jobs, polled, clock, results, aggregated,
                   cacheWriteFailed, outOfOrder>>

\* timers of equal delay run in the order they were created: the timers of the
\* waiters before j have run
TimersBeforeRan(j) ==
    \A k \in 1 .. (j - 1) : waiters[k].state = "pending" => polled[k]

\* variant: an interval callback that keeps running after the waiter settled
Poll_NotCancelled(j, err) ==
    /\ ~queueEvents
    /\ j \in 1 .. Len(jobs)
    /\ ~polled[j]
    /\ TimersBeforeRan(j)
    /\ polled' = [polled EXCEPT ![j] = TRUE]
    /\ IF waiters[j].state = "pending"
       THEN Settle(j, pollJob(jobs[j], err))
       ELSE UNCHANGED <<waiters, pall>>
    /\ UNCHANGED <<redis, store, queueEvents, youtubeUrl, written, conc, proc, pc, videoId, cacheRead,
                   error, result, calls, fileVars, jobs, clock, results, aggregated,
                   cacheWriteFailed, outOfOrder>>

\* polling: the interval callback of waitForJobCompletion runs once per interval
Poll(j, err) ==
    /\ ~queueEvents
    /\ j \in 1 .. Len(jobs)
    /\ waiters[j].state = "pending"
    /\ ~polled[j]
    /\ TimersBeforeRan(j)
    /\ polled' = [polled EXCEPT ![j] = (pollJob(jobs[j], err) = Pending)]
    /\ Settle(j, pollJob(jobs[j], err))
    /\ UNCHANGED <<redis, store, queueEvents, youtubeUrl, written, conc, proc, pc, videoId, cacheRead, error, result,
                   calls, fileVars, jobs, clock, results, aggregated, cacheWriteFailed, outOfOrder>>

\* polling: the setTimeout callback of waitForJobCompletion
PollTimeout(j) ==
    /\ ~queueEvents
    /\ j \in 1 .. Len(jobs)
    /\ waiters[j].state = "pending"
    /\ clock >= TimeoutTicks
    /\ \A k \in 1 .. (j - 1) : waiters[k].state # "pending"
    /\ Settle(j, jobTimeout)
    /\ polled' = [polled EXCEPT ![j] = FALSE]
    /\ UNCHANGED <<redis, store, queueEvents, youtubeUrl, written, conc, proc, pc, videoId, cacheRead, error, result,
                   calls, fileVars, jobs, clock, results, aggregated,
                   cacheWriteFailed, outOfOrder>>

\* a poll interval elapses; the timers that are due and the finished events that
\* are pending are handled before the next interval ends
Tick ==
    /\ clock < MaxClock
    /\ \E j \in 1 .. Len(jobs) : waiters[j].state = "pending"
    /\ \A j \in 1 .. Len(jobs) :
          waiters[j].state = "pending" =>
              IF queueEvents
              THEN ~Terminal(jobs[j])
              ELSE polled[j] /\ clock < TimeoutTicks
    /\ clock' = clock + 1
    /\ polled' = [j \in 1 .. Len(jobs) |-> FALSE]
    /\ UNCHANGED <<redis, store, queueEvents, youtubeUrl, written, conc, proc, pc, videoId, cacheRead, error, result,
                   calls, fileVars, jobs, waiters, pall, results, aggregated,
                   cacheWriteFailed, outOfOrder>>

(* ----------------------------- environment ------------------------------ *)
\* a chunk file is removed or truncated behind the program's back
EnvDamage(i, which, kind) ==
    /\ pc \in {"extract", "verify"}
    /\ damage < MaxDamage
    /\ fs[which][i] = "ok"
    /\ fs' = [fs EXCEPT ![which][i] = kind]
    /\ damage' = damage + 1
    /\ UNCHANGED <<redis, store, queueEvents, youtubeUrl, written, conc, proc, pc, videoId, cacheRead, error, result,
                   calls, dc, chunks, verifiedChunks, queueVars, results, aggregated,
                   cacheWriteFailed, outOfOrder>>

\* DELETE /analyze/cache/:videoId
InvalidateCache(id, err) ==
    /\ pc \in {"idle", "cacheCheck", "done"}
    /\ store[id].has
    /\ store' = invalidateCache(id, err).store
    /\ written' = IF redis = "null" \/ err THEN written ELSE [written EXCEPT ![id] = None]
    /\ UNCHANGED <<redis, queueEvents, youtubeUrl, conc, proc, pc, videoId, cacheRead, error, result, calls,
                   fileVars, queueVars, results, aggregated, cacheWriteFailed, outOfOrder>>

(* ------------------------------- Next ----------------------------------- *)
AcquireOutcomes == {"infoFail", "downloadFail", "notCreated", "emptyFile", "ok"}
\* answers of the inference backend to one chunk in this specification
MoodOutcomes == {"happy", "error"}
FrameCounts == 0 .. 2

Next ==
    \/ \E u \in Urls : Start(u)
    \/ \E status \in Statuses : \E err \in BackendErrors(status) : CacheCheck(status, err)
    \/ \E o \in AcquireOutcomes, d \in Durations : Acquire(o, d)
    \/ \E ok \in BOOLEAN : ExtractChunk(ok)
    \/ FinishChunking
    \/ VerifyChunks
    \/ SubmitJobs
    \/ AwaitResolved
    \/ AwaitRejected
    \/ \E status \in Statuses : \E err \in BackendErrors(status) : CacheWrite(status, err)
    \/ CleanupAndReturn
    \/ CatchAndRethrow
    \/ \E j \in 1 .. MaxChunks : WorkerStart(j)
    \/ \E j \in 1 .. MaxChunks, n \in FrameCounts, m \in MoodOutcomes,
          c \in Confidences, img \in FrameImages : WorkerFinish(j, n, m, c, img)
    \/ \E j \in 1 .. MaxChunks : EventSettle(j)
    \/ \E j \in 1 .. MaxChunks, err \in BOOLEAN : Poll(j, err)
    \/ \E j \in 1 .. MaxChunks : PollTimeout(j)
    \/ Tick
    \/ \E i \in ChunkIdx, which \in {"video", "audio"}, kind \in {"absent", "empty"} :
          EnvDamage(i, which, kind)
    \/ \E id \in VideoIds, err \in BOOLEAN : InvalidateCache(id, err)

Spec == Init /\ [][Next]_vars

\* the scheduling the code relies on: the orchestrator runs on, the worker
\* takes waiting jobs and every worker run ends, events and timers are delivered
Orchestrator ==
    \/ \E status \in Statuses : \E err \in BackendErrors(status) : CacheCheck(status, err)
    \/ \E o \in AcquireOutcomes, d \in Durations : Acquire(o, d)
    \/ \E ok \in BOOLEAN : ExtractChunk(ok)
    \/ FinishChunking
    \/ VerifyChunks
    \/ SubmitJobs
    \/ AwaitResolved
    \/ AwaitRejected
    \/ \E status \in Statuses : \E err \in BackendErrors(status) : CacheWrite(status, err)
    \/ CleanupAndReturn
    \/ CatchAndRethrow

Worker ==
    \/ \E j \in 1 .. MaxChunks : WorkerStart(j)
    \/ \E j \in 1 .. MaxChunks, n \in FrameCounts, m \in MoodOutcomes,
          c \in Confidences, img \in FrameImages : WorkerFinish(j, n, m, c, img)

Waiters ==
    \/ \E j \in 1 .. MaxChunks : EventSettle(j)
    \/ \E j \in 1 .. MaxChunks, err \in BOOLEAN : Poll(j, err)
    \/ \E j \in 1 .. MaxChunks : PollTimeout(j)
    \/ Tick

\* analyzeVideo right after Promise.all(chunkQueue.add(..)): n chunks were
\* extracted and verified, one job per chunk is queued, one waiter per job
Submitted(n) ==
    LET d == CHUNK_DURATION_SECONDS * n - 5
        chs == [k \in 1 .. n |-> Chunk(k - 1, d)]
        files == [i \in ChunkIdx |-> IF i < n THEN "ok" ELSE "absent"]
    IN /\ pc = "await"
       /\ youtubeUrl = "urlA"
       /\ videoId = Some("vidA")
       /\ cacheRead = "miss"
       /\ error = <<>>
       /\ result = NoResult
       /\ calls = [NoCalls EXCEPT !.download = TRUE, !.verify = TRUE, !.submit = TRUE]
       /\ fs = [dir |-> TRUE, source |-> "absent", video |-> files, audio |-> files]
       /\ dc = [duration |-> d, chunkCount |-> n, i |-> n, chunks |-> chs]
       /\ chunks = chs
       /\ verifiedChunks = chs
       /\ damage = 0
       /\ jobs = [k \in 1 .. n |-> NewJob(chs[k])]
       /\ waiters = [k \in 1 .. n |-> Pending]
       /\ polled = [k \in 1 .. n |-> ~queueEvents]
       /\ pall = PallPending
       /\ clock = 0
       /\ results = <<>>
       /\ aggregated = None
       /\ cacheWriteFailed = FALSE
       /\ outOfOrder = FALSE

QueueInit ==
    /\ redis = "client"
    /\ store = [id \in VideoIds |-> NoEntry]
    /\ written = [id \in VideoIds |-> None]
    /\ conc = NoConc
    /\ proc = NoProc
    /\ queueEvents \in BOOLEAN
    /\ \E n \in 1 .. MaxChunks : Submitted(n)

\* what runs from the submission of the jobs on
QueueNext ==
    \/ AwaitResolved
    \/ AwaitRejected
    \/ \E status \in Statuses : \E err \in BackendErrors(status) : CacheWrite(status, err)
    \/ CleanupAndReturn
    \/ CatchAndRethrow
    \/ Worker
    \/ Waiters

QueueSpec ==
    /\ QueueInit
    /\ [][QueueNext]_vars
    /\ WF_vars(Orchestrator)
    /\ WF_vars(Worker)
    /\ WF_vars(Waiters)

(* ------------------------ CacheService on its own ----------------------- *)
\* times to live passed to setCachedResult, in seconds
Ttls == {1, 2, CACHE_DEFAULT_TTL_SECONDS}

\* results handed to setCachedResult: no entry, entries with and without a
\* frame image, variabilities 0, 1 and 1/2
CacheValues ==
    LET r1 == [chunkIndex |-> 0, startTime |-> 0, endTime |-> 15,
               moodResult |-> [primary_mood |-> "happy", confidence |-> 90],
               frameImage |-> "img"]
        r2 == [chunkIndex |-> 1, startTime |-> 15, endTime |-> 30,
               moodResult |-> [primary_mood |-> "sad", confidence |-> 5],
               frameImage |-> "none"]
    IN {aggregateResults(rs) : rs \in {<<>>, <<r1>>, <<r1, r2>>, <<r2, r1, r1>>}}

\* a connected cache with nothing in it, no request in progress
CacheInit ==
    /\ redis = "client"
    /\ store = [id \in VideoIds |-> NoEntry]
    /\ queueEvents = FALSE
    /\ pc = "idle"
    /\ videoId = None
    /\ cacheRead = NoRead
    /\ error = <<>>
    /\ result = NoResult
    /\ calls = NoCalls
    /\ fs = FreshFs
    /\ dc = NoDc
    /\ chunks = <<>>
    /\ verifiedChunks = <<>>
    /\ damage = 0
    /\ jobs = <<>>
    /\ waiters = <<>>
    /\ polled = <<>>
    /\ pall = PallPending
    /\ clock = 0
    /\ results = <<>>
    /\ aggregated = None
    /\ cacheWriteFailed = FALSE
    /\ outOfOrder = FALSE
    /\ youtubeUrl = "none"
    /\ written = [id \in VideoIds |-> None]
    /\ conc = NoConc
    /\ proc = NoProc

\* setCachedResult(id, v, ttl); written keeps v and the time its life ends
CacheSet(id, v, ttl, err) ==
    /\ pc = "idle"
    /\ store' = setCachedResult(id, v, ttl, err).store
    /\ written' = IF err THEN written
                   ELSE [written EXCEPT ![id] = [some |-> TRUE, v |-> v, until |-> clock + ttl]]
    /\ UNCHANGED <<redis, queueEvents, youtubeUrl, conc, proc, pc, videoId, cacheRead, error, result,
                   calls, fileVars, queueVars, results, aggregated, cacheWriteFailed,
                   outOfOrder>>

\* getCachedResult(id): what the caller asked for and what it received
CacheGet(id, err) ==
    /\ pc = "idle"
    /\ videoId' = Some(id)
    /\ cacheRead' = IF err THEN "error"
                     ELSE IF getCachedResult(id, err).value.some THEN "hit" ELSE "miss"
    /\ result' = [kind |-> "returned", value |-> getCachedResult(id, err).value,
                   reason |-> <<>>]
    /\ UNCHANGED <<redis, store, queueEvents, youtubeUrl, written, conc, proc, pc, error, calls,
                   fileVars, queueVars, results, aggregated, cacheWriteFailed, outOfOrder>>

\* a second passes: Redis counts every time to live down and drops the keys
\* whose time has run out
CacheTime ==
    /\ pc = "idle"
    /\ clock < MaxClock
    /\ clock' = clock + 1
    /\ store' = [id \in VideoIds |->
                    IF store[id].has /\ store[id].ttl > 1
                    THEN [store[id] EXCEPT !.ttl = @ - 1]
                    ELSE NoEntry]
    /\ UNCHANGED <<redis, queueEvents, youtubeUrl, written, conc, proc, pc, videoId, cacheRead,
                   error, result, calls, fileVars, jobs, waiters, polled, pall, results,
                   aggregated, cacheWriteFailed, outOfOrder>>

CacheNext ==
    \/ \E id \in VideoIds, v \in CacheValues, ttl \in Ttls, err \in BOOLEAN :
          CacheSet(id, v, ttl, err)
    \/ \E id \in VideoIds, err \in BOOLEAN : CacheGet(id, err)
    \/ \E id \in VideoIds, err \in BOOLEAN : InvalidateCache(id, err)
    \/ CacheTime

CacheSpec == CacheInit /\ [][CacheNext]_vars

(* ------------- two analyzeVideo calls for the same video ---------------- *)
\* The calls share the cache (store), the temp root and the chunk queue; conc
\* holds what each call keeps in its own locals (run), the directories under
\* the temp root (dirs), the names createTempDir has handed out (used) and
\* the queue (jobs).
Runs == {1, 2}
DirIds == {1, 2}
NoDir == 0
Other(r) == 3 - r

\* variant: a temp directory named after the video instead of a uuid
createTempDir_PerVideo(c) == 1

\* uuidv4(): a name no earlier call has received
createTempDir(c) == CHOOSE d \in DirIds \ c.used : \A e \in DirIds \ c.used : d <= e

ConcRun(c, r, f) == [c EXCEPT !.run[r] = f]

\* the ChunkJobResult of chunk i analysed with mood m
JobResult(i, d, m) ==
    [chunkIndex |-> i, startTime |-> Chunk(i, d).startTime, endTime |-> Chunk(i, d).endTime,
     moodResult |-> [primary_mood |-> m, confidence |-> 90], frameImage |-> "img"]

\* positions in the queue of the jobs a call added, in the order it added them
JobsOf(c, r) == SelectSeq([k \in 1 .. Len(c.jobs) |-> k], LAMBDA k : c.jobs[k].run = r)

ConcInit ==
    /\ redis = "client"
    /\ store = [id \in VideoIds |-> NoEntry]
    /\ queueEvents = TRUE
    /\ pc = "idle"
    /\ videoId = None
    /\ cacheRead = NoRead
    /\ error = <<>>
    /\ result = NoResult
    /\ calls = NoCalls
    /\ fs = FreshFs
    /\ dc = NoDc
    /\ chunks = <<>>
    /\ verifiedChunks = <<>>
    /\ damage = 0
    /\ jobs = <<>>
    /\ waiters = <<>>
    /\ polled = <<>>
    /\ pall = PallPending
    /\ clock = 0
    /\ results = <<>>
    /\ aggregated = None
    /\ cacheWriteFailed = FALSE
    /\ outOfOrder = FALSE
    /\ youtubeUrl = "urlA"
    /\ written = [id \in VideoIds |-> None]
    /\ proc = NoProc
    /\ \E d \in Durations \ {0} :
          conc = [duration |-> d,
                  run |-> [r \in Runs |->
                             [pc |-> "start", missed |-> FALSE, dir |-> NoDir,
                              aggregated |-> None, wrote |-> FALSE, result |-> NoResult]],
                  dirs |-> [x \in DirIds |-> [exists |-> FALSE, files |-> {}]],
                  used |-> {},
                  jobs |-> <<>>]

ConcUnchanged ==
    UNCHANGED <<redis, queueEvents, youtubeUrl, written, proc, pc, videoId, cacheRead, error, result,
                calls, fileVars, queueVars, results, aggregated, cacheWriteFailed, outOfOrder>>

\* Step 0 of call r
ConcCacheCheck(r) ==
    /\ conc.run[r].pc = "start"
    /\ LET got == getCachedResult("vidA", FALSE).value
       IN conc' = IF got.some
                  THEN ConcRun(conc, r, [conc.run[r] EXCEPT !.pc = "done",
                                                            !.result = Returned(got.v)])
                  ELSE ConcRun(conc, r, [conc.run[r] EXCEPT !.pc = "download",
                                                            !.missed = TRUE])
    /\ UNCHANGED store
    /\ ConcUnchanged

\* Step 1 of call r: downloadAndChunk fills a new temp directory
ConcDownloadAndChunk(r) ==
    /\ conc.run[r].pc = "download"
    /\ LET d == createTempDir(conc)
           n == calculateChunkCount(conc.duration)
       IN conc' = [ConcRun(conc, r, [conc.run[r] EXCEPT !.pc = "submit", !.dir = d])
                     EXCEPT !.used = @ \cup {d},
                            !.dirs[d] = [exists |-> TRUE, files |-> 0 .. (n - 1)]]
    /\ UNCHANGED store
    /\ ConcUnchanged

\* verification and Step 2 of call r: one job per chunk, or the first missing chunk
ConcSubmit(r) ==
    /\ conc.run[r].pc = "submit"
    /\ LET d == conc.run[r].dir
           n == calculateChunkCount(conc.duration)
       IN conc' = IF \A i \in 0 .. (n - 1) : i \in conc.dirs[d].files
                  THEN [ConcRun(conc, r, [conc.run[r] EXCEPT !.pc = "await"])
                          EXCEPT !.jobs = @ \o [k \in 1 .. n |->
                                                  [run |-> r, dir |-> d, index |-> k - 1,
                                                   state |-> "waiting", reason |-> "none",
                                                   value |-> None]]]
                  ELSE ConcRun(conc, r, [conc.run[r] EXCEPT !.pc = "catch"])
    /\ UNCHANGED store
    /\ ConcUnchanged

\* the worker takes the oldest waiting job and processes it
ConcWorker(outcome) ==
    /\ \E j \in 1 .. Len(conc.jobs) :
          /\ conc.jobs[j].state = "waiting"
          /\ \A k \in 1 .. (j - 1) : conc.jobs[k].state # "waiting"
          /\ LET job == conc.jobs[j]
             IN conc' = [conc EXCEPT !.jobs[j] =
                    IF job.index \notin conc.dirs[job.dir].files
                    THEN [job EXCEPT !.state = "failed", !.reason = "missing"]
                    ELSE IF outcome = "error"
                    THEN [job EXCEPT !.state = "failed", !.reason = "inference"]
                    ELSE [job EXCEPT !.state = "completed",
                                     !.value = Some(JobResult(job.index, conc.duration,
                                                              outcome))]]
    /\ UNCHANGED store
    /\ ConcUnchanged

\* Step 3 and 4 of call r: all its jobs completed, aggregation
ConcAwaitResolved(r) ==
    /\ conc.run[r].pc = "await"
    /\ \A k \in 1 .. Len(conc.jobs) : conc.jobs[k].run = r => conc.jobs[k].state = "completed"
    /\ LET mine == JobsOf(conc, r)
           rs == [k \in 1 .. Len(mine) |-> conc.jobs[mine[k]].value.v]
       IN conc' = ConcRun(conc, r, [conc.run[r] EXCEPT !.pc = "cacheWrite",
                                                       !.aggregated = Some(aggregateResults(rs))])
    /\ UNCHANGED store
    /\ ConcUnchanged

\* Step 3 of call r: one of its jobs failed
ConcAwaitRejected(r) ==
    /\ conc.run[r].pc = "await"
    /\ \E k \in 1 .. Len(conc.jobs) : conc.jobs[k].run = r /\ conc.jobs[k].state = "failed"
    /\ conc' = ConcRun(conc, r, [conc.run[r] EXCEPT !.pc = "catch"])
    /\ UNCHANGED store
    /\ ConcUnchanged

\* Step 5 of call r
ConcCacheWrite(r) ==
    /\ conc.run[r].pc = "cacheWrite"
    /\ store' = setCachedResult("vidA", conc.run[r].aggregated.v,
                                 CACHE_DEFAULT_TTL_SECONDS, FALSE).store
    /\ conc' = ConcRun(conc, r, [conc.run[r] EXCEPT !.pc = "cleanup", !.wrote = TRUE])
    /\ ConcUnchanged

\* cleanupChunks(chunks) of call r: its chunk files, then their directory
ConcCleanupChunks(c, r) ==
    [c EXCEPT !.dirs[c.run[r].dir] = [exists |-> FALSE, files |-> {}]]

\* Step 6 of call r
ConcCleanupAndReturn(r) ==
    /\ conc.run[r].pc = "cleanup"
    /\ conc' = ConcRun(ConcCleanupChunks(conc, r), r,
                        [conc.run[r] EXCEPT !.pc = "done",
                                            !.result = Returned(conc.run[r].aggregated.v)])
    /\ UNCHANGED store
    /\ ConcUnchanged

\* the catch block of call r
ConcCatchAndRethrow(r) ==
    /\ conc.run[r].pc = "catch"
    /\ conc' = ConcRun(ConcCleanupChunks(conc, r), r,
                        [conc.run[r] EXCEPT !.pc = "done",
                                            !.result = Thrown(<<"Analysis error">>)])
    /\ UNCHANGED store
    /\ ConcUnchanged

ConcNext ==
    \/ \E r \in Runs : ConcCacheCheck(r)
    \/ \E r \in Runs : ConcDownloadAndChunk(r)
    \/ \E r \in Runs : ConcSubmit(r)
    \/ \E outcome \in Moods \cup {"error"} : ConcWorker(outcome)
    \/ \E r \in Runs : ConcAwaitResolved(r)
    \/ \E r \in Runs : ConcAwaitRejected(r)
    \/ \E r \in Runs : ConcCacheWrite(r)
    \/ \E r \in Runs : ConcCleanupAndReturn(r)
    \/ \E r \in Runs : ConcCatchAndRethrow(r)

ConcSpec == ConcInit /\ [][ConcNext]_vars

(* ------------------- ChunkProcessor.process, step by step --------------- *)
\* the frames extractFrames asks for: the one at 0 s and the one at 7.5 s
Timestamps == {1, 2}

\* what extractFrameAtTime leaves for one timestamp: a frame file, the partial
\* file of an ffmpeg run that ended in an error, or no file
FrameOutcomes == {"frame", "partial", "none"}

\* FramesService.extractFrames after ensureDir: the new directory, the files
\* in it and the frames it returns
extractFrames(outs) ==
    [dir |-> TRUE,
     files |-> {t \in Timestamps : outs[t] \in {"frame", "partial"}},
     frames |-> SelectSeq(<<1, 2>>, LAMBDA t : outs[t] = "frame")]

\* variant: zero frames are handed on to the mood analysis
extractAndValidateFrames_AllowEmpty(frames) == [threw |-> FALSE, frames |-> frames]

\* ChunkProcessor.extractAndValidateFrames: no frame is an error
extractAndValidateFrames(frames) ==
    IF Len(frames) = 0
    THEN [threw |-> TRUE, frames |-> <<>>]
    ELSE [threw |-> FALSE, frames |-> frames]

\* FramesService.cleanupFrames: each listed file, then the directory of the first
cleanupFrames(frames, p) ==
    IF Len(frames) > 0
    THEN [p EXCEPT !.dir = FALSE, !.files = {}]
    ELSE p

ProcInit ==
    /\ redis = "null"
    /\ store = [id \in VideoIds |-> NoEntry]
    /\ queueEvents = FALSE
    /\ pc = "idle"
    /\ videoId = None
    /\ cacheRead = NoRead
    /\ error = <<>>
    /\ result = NoResult
    /\ calls = NoCalls
    /\ fs = FreshFs
    /\ dc = NoDc
    /\ chunks = <<>>
    /\ verifiedChunks = <<>>
    /\ damage = 0
    /\ jobs = <<>>
    /\ waiters = <<>>
    /\ polled = <<>>
    /\ pall = PallPending
    /\ clock = 0
    /\ results = <<>>
    /\ aggregated = None
    /\ cacheWriteFailed = FALSE
    /\ outOfOrder = FALSE
    /\ youtubeUrl = "none"
    /\ written = [id \in VideoIds |-> None]
    /\ conc = NoConc
    /\ \E i \in ChunkIdx, v \in FileStates :
          proc = [pc |-> "verify",
                  chunk |-> Chunk(i, MaxChunks * CHUNK_DURATION_SECONDS),
                  video |-> v,           \* the chunk's video file
                  started |-> FALSE,     \* extractFrames was called
                  dir |-> FALSE,         \* the frame directory exists
                  files |-> {},          \* the files in it
                  frames |-> <<>>,       \* the local frames of process
                  inference |-> FALSE,   \* analyzeMood was called
                  moodResult |-> None,
                  outcome |-> NoResult]

ProcUnchanged ==
    UNCHANGED <<redis, store, queueEvents, youtubeUrl, written, conc, pc, videoId, cacheRead,
                error, result, calls, fileVars, queueVars, results, aggregated,
                cacheWriteFailed, outOfOrder>>

ProcThrow(p, reason) == [p EXCEPT !.pc = "catch", !.outcome = Thrown(reason)]

\* verifyChunkFiles
ProcVerifyChunkFiles ==
    /\ proc.pc = "verify"
    /\ proc' = IF proc.video = "absent"
               THEN ProcThrow(proc, <<"Video chunk file does not exist">>)
               ELSE [proc EXCEPT !.pc = "extract"]
    /\ ProcUnchanged

\* extractAndValidateFrames: ensureDir succeeds or throws, then one ffmpeg
\* run per timestamp
ProcExtractFrames(ensured, outs) ==
    /\ proc.pc = "extract"
    /\ proc' = IF ~ensured
               THEN ProcThrow([proc EXCEPT !.started = TRUE], <<"ensureDir failed">>)
               ELSE LET x == extractFrames(outs)
                        v == extractAndValidateFrames(x.frames)
                        p == [proc EXCEPT !.started = TRUE, !.dir = x.dir, !.files = x.files]
                    IN IF v.threw
                       THEN ProcThrow(p, <<"Failed to extract frames from chunk">>)
                       ELSE [p EXCEPT !.pc = "analyze", !.frames = v.frames]
    /\ ProcUnchanged

\* analyzeMood: the inference backend answers or fails
ProcAnalyzeMood(mood, conf) ==
    /\ proc.pc = "analyze"
    /\ proc' = IF mood = "error"
               THEN ProcThrow([proc EXCEPT !.inference = TRUE], <<"Mood analysis failed">>)
               ELSE [proc EXCEPT !.inference = TRUE, !.pc = "frame",
                                 !.moodResult = Some([primary_mood |-> mood,
                                                      confidence |-> conf])]
    /\ ProcUnchanged

\* extractRepresentativeFrame (it never throws), cleanupFrames, return
ProcReturn(img) ==
    /\ proc.pc = "frame"
    /\ proc' = [cleanupFrames(proc.frames, proc) EXCEPT
                  !.pc = "done",
                  !.outcome = Returned([chunkIndex |-> proc.chunk.index,
                                        startTime |-> proc.chunk.startTime,
                                        endTime |-> proc.chunk.endTime,
                                        moodResult |-> proc.moodResult.v,
                                        frameImage |-> img])]
    /\ ProcUnchanged

\* the catch block: cleanupFrames when frames is not empty, then rethrow
ProcCatch ==
    /\ proc.pc = "catch"
    /\ proc' = [cleanupFrames(proc.frames, proc) EXCEPT !.pc = "done"]
    /\ ProcUnchanged

ProcNext ==
    \/ ProcVerifyChunkFiles
    \/ \E ensured \in BOOLEAN, outs \in [Timestamps -> FrameOutcomes] :
          ProcExtractFrames(ensured, outs)
    \/ \E mood \in Moods \cup {"error"}, conf \in Confidences : ProcAnalyzeMood(mood, conf)
    \/ \E img \in FrameImages \cup {"none"} : ProcReturn(img)
    \/ ProcCatch

ProcSpec == ProcInit /\ [][ProcNext]_vars

(* ------------------ VideoService.downloadAndChunk: the plan ------------- *)
\* every whole number of seconds a video of at most MaxChunks chunks may last
PlanDurations == 1 .. (MaxChunks * CHUNK_DURATION_SECONDS)

\* analyzeVideo after a cache miss, about to call downloadAndChunk
PlanInit ==
    /\ redis = "null"
    /\ store = [id \in VideoIds |-> NoEntry]
    /\ queueEvents = FALSE
    /\ pc = "download"
    /\ videoId = Some("vidA")
    /\ cacheRead = "miss"
    /\ error = <<>>
    /\ result = NoResult
    /\ calls = NoCalls
    /\ fs = FreshFs
    /\ dc = NoDc
    /\ chunks = <<>>
    /\ verifiedChunks = <<>>
    /\ damage = 0
    /\ jobs = <<>>
    /\ waiters = <<>>
    /\ polled = <<>>
    /\ pall = PallPending
    /\ clock = 0
    /\ results = <<>>
    /\ aggregated = None
    /\ cacheWriteFailed = FALSE
    /\ outOfOrder = FALSE
    /\ youtubeUrl = "urlA"
    /\ written = [id \in VideoIds |-> None]
    /\ conc = NoConc
    /\ proc = NoProc

\* the download succeeds and the extraction loop runs
PlanNext ==
    \/ \E d \in PlanDurations : Acquire("ok", d)
    \/ \E ok \in BOOLEAN : ExtractChunk(ok)

PlanSpec == PlanInit /\ [][PlanNext]_vars

(* ------------- VideoService.downloadAndChunk: after the loop ------------ *)
\* the extraction loop has cut all n chunks of the video; since then the
\* environment may have removed or truncated any of their files
Extracted(n) ==
    LET d == CHUNK_DURATION_SECONDS * n - 5
    IN /\ pc = "extract"
       /\ youtubeUrl = "urlA"
       /\ videoId = Some("vidA")
       /\ cacheRead = "miss"
       /\ calls = [NoCalls EXCEPT !.download = TRUE]
       /\ dc = [duration |-> d, chunkCount |-> n, i |-> n,
                chunks |-> [k \in 1 .. n |-> Chunk(k - 1, d)]]
       /\ \E video \in [ChunkIdx -> FileStates], audio \in [ChunkIdx -> FileStates] :
             /\ \A i \in ChunkIdx : i >= n => video[i] = "absent" /\ audio[i] = "absent"
             /\ fs = [dir |-> TRUE, source |-> "ok", video |-> video, audio |-> audio]

ExtractedInit ==
    /\ redis = "null"
    /\ store = [id \in VideoIds |-> NoEntry]
    /\ queueEvents = FALSE
    /\ error = <<>>
    /\ result = NoResult
    /\ chunks = <<>>
    /\ verifiedChunks = <<>>
    /\ damage = 0
    /\ jobs = <<>>
    /\ waiters = <<>>
    /\ polled = <<>>
    /\ pall = PallPending
    /\ clock = 0
    /\ results = <<>>
    /\ aggregated = None
    /\ cacheWriteFailed = FALSE
    /\ outOfOrder = FALSE
    /\ written = [id \in VideoIds |-> None]
    /\ conc = NoConc
    /\ proc = NoProc
    /\ \E n \in 1 .. MaxChunks : Extracted(n)

\* the checks after the loop, then analyzeVideo's own verification
ExtractedNext ==
    \/ FinishChunking
    \/ VerifyChunks

ExtractedSpec == ExtractedInit /\ [][ExtractedNext]_vars

(* ------------------ AggregationService.aggregateResults ---------------- *)
\* confidences a mood analysis may report, in hundredths: validateMoodResponse
\* accepts every number from 0 to 1
AggConfidences == {0, 5, 90}

\* chunk results as the callers of aggregateResults may pass them, in any order
ChunkResults ==
    {[chunkIndex |-> k, startTime |-> CHUNK_DURATION_SECONDS * k,
      endTime |-> CHUNK_DURATION_SECONDS * (k + 1),
      moodResult |-> [primary_mood |-> m, confidence |-> c],
      frameImage |-> img] :
        k \in 0 .. 1, m \in Moods, c \in AggConfidences, img \in FrameImages \cup {"none"}}

ChunkResultLists == UNION {[1 .. n -> ChunkResults] : n \in 0 .. MaxResults}

\* aggregateResults is about to be called with the list in results
AggInit ==
    /\ redis = "null"
    /\ store = [id \in VideoIds |-> NoEntry]
    /\ queueEvents = FALSE
    /\ pc = "aggregate"
    /\ videoId = None
    /\ cacheRead = NoRead
    /\ error = <<>>
    /\ result = NoResult
    /\ calls = NoCalls
    /\ fs = FreshFs
    /\ dc = NoDc
    /\ chunks = <<>>
    /\ verifiedChunks = <<>>
    /\ damage = 0
    /\ jobs = <<>>
    /\ waiters = <<>>
    /\ polled = <<>>
    /\ pall = PallPending
    /\ clock = 0
    /\ results \in ChunkResultLists
    /\ aggregated = None
    /\ cacheWriteFailed = FALSE
    /\ outOfOrder = FALSE
    /\ youtubeUrl = "none"
    /\ written = [id \in VideoIds |-> None]
    /\ conc = NoConc
    /\ proc = NoProc

\* one call of aggregateResults(results)
Aggregate ==
    /\ pc = "aggregate"
    /\ aggregated' = Some(aggregateResults(results))
    /\ pc' = "aggregated"
    /\ UNCHANGED <<redis, store, queueEvents, youtubeUrl, written, conc, proc, videoId, cacheRead,
                   error, result, calls, fileVars, queueVars, results, cacheWriteFailed,
                   outOfOrder>>

\* a second call on the same list; its value is what the caller returns
AggregateAgain ==
    /\ pc = "aggregated"
    /\ result' = Returned(aggregateResults(results))
    /\ pc' = "done"
    /\ UNCHANGED <<redis, store, queueEvents, youtubeUrl, written, conc, proc, videoId, cacheRead,
                   error, calls, fileVars, queueVars, results, aggregated, cacheWriteFailed,
                   outOfOrder>>

AggNext == Aggregate \/ AggregateAgain

AggSpec == AggInit /\ [][AggNext]_vars

(* ------------------------------ properties ------------------------------ *)
AllJobsTerminal == \A j \in 1 .. Len(jobs) : Terminal(jobs[j])

\* analyzeVideo has thrown the failure of a job, or a job's timeout
JobFailureSurfaced ==
    /\ pc = "done"
    /\ result.kind = "thrown"
    /\ \/ result.reason = jobTimeout.reason
       \/ \E k \in 1 .. Len(jobs) :
             /\ jobs[k].state = "failed"
             /\ result.reason \in {waitUntilFinished(jobs[k]).reason,
                                   pollJob(jobs[k], FALSE).reason}

VerificationError ==
    error # <<>> /\ error[1] \in {"Chunk files are missing", "Chunk has empty files"}

\* what a read of id must return: the value last stored under id while its
\* time to live has not elapsed and it was not invalidated, else nothing
Live(id) ==
    IF written[id].some /\ clock < written[id].until THEN Some(written[id].v) ELSE None

\* the labels present in a list of chunk results
Labels(rs) == {rs[i].moodResult.primary_mood : i \in 1 .. Len(rs)}

\* the labels with the largest accumulated confidence
MaxLabels(rs) ==
    {l \in Labels(rs) : \A o \in Labels(rs) : MoodScore(rs, l, 1) >= MoodScore(rs, o, 1)}

\* the label of S that appears first in the list
FirstOf(rs, S) ==
    rs[CHOOSE i \in 1 .. Len(rs) :
          /\ rs[i].moodResult.primary_mood \in S
          /\ \A j \in 1 .. (i - 1) : rs[j].moodResult.primary_mood \notin S].moodResult.primary_mood

\* adjacent pairs of results with different moods
AdjacentChanges(rs) ==
    Cardinality({i \in 1 .. (Len(rs) - 1) :
                    rs[i].moodResult.primary_mood # rs[i + 1].moodResult.primary_mood})

\* an AggregatedResult for the list rs: a label, one entry per result, a number in [0,1]
WellFormed(r, rs) ==
    /\ r.overall_mood \in Moods \cup {"neutral"}
    /\ Len(r.mood_timeline) = Len(rs)
    /\ r.emotional_variability.den > 0
    /\ 0 <= r.emotional_variability.num
    /\ r.emotional_variability.num <= r.emotional_variability.den

\* C1: when the cache is reachable and holds a value for the video id,
\* analyzeVideo returns exactly that value and calls neither downloadAndChunk,
\* nor the queue, nor the aggregator, nor cleanup, nor the cache write.
C1_CacheHitShortCircuit ==
    cacheRead = "hit" =>
        /\ pc = "done"
        /\ result = Returned(JSONparse(EarlierEntry.json))
        /\ calls = NoCalls
        /\ jobs = <<>>
        /\ aggregated = None
        /\ fs = FreshFs

C1_Witness ==
    cacheRead = "hit" /\ pc = "done" /\ result.kind = "returned"

\* C2: every artifact a run created is deleted on every exit path of
\* analyzeVideo, whether it returns or throws.
C2_ArtifactsDeletedOnEveryExit ==
    (pc = "done" /\ calls.download) => ~ArtifactsLeft(fs)

C4_FailFast ==
    /\ [][\A j \in 1 .. Len(waiters) :
            (/\ pall.state = "pending"
             /\ waiters[j].state = "pending"
             /\ waiters'[j].state = "rejected")
            => pall' = [state |-> "rejected", reason |-> waiters'[j].reason]]_vars
    /\ [](pall.state = "rejected" =>
            /\ pc \in {"await", "catch", "done"}
            /\ results = <<>>
            /\ aggregated = None
            /\ ~calls.cacheWrite
            /\ (pc = "await" => ENABLED AwaitRejected)
            /\ (pc = "catch" => error = pall.reason /\ ENABLED CatchAndRethrow)
            /\ (pc = "done" => result = Thrown(pall.reason)))

C4_Witness ==
    /\ pc = "done"
    /\ pall.state = "rejected"
    /\ result.kind = "thrown"
    /\ \E j \in 1 .. Len(jobs) : ~Terminal(jobs[j]) /\ waiters[j].state = "pending"

\* C5: on the failure path the cleanup leaves alone the files of jobs that
\* have not reached a terminal state.
C5_UnfinishedJobsKeepFiles ==
    JobFailureSurfaced =>
        \A j \in 1 .. Len(jobs) :
            ~Terminal(jobs[j]) =>
                /\ fs.video[jobs[j].chunk.index] = "ok"
                /\ fs.audio[jobs[j].chunk.index] = "ok"

\* C6: for the same job outcome the event-driven waiter and the polling
\* waiter deliver the same observable result.
C6_StrategiesAgree ==
    \A j \in 1 .. Len(jobs) :
        Terminal(jobs[j]) => pollJob(jobs[j], FALSE) = waitUntilFinished(jobs[j])

\* C7: under both strategies the wait for a job is bounded by the job
\* timeout: once the timeout has passed no waiter is still pending.
C7_WaitBounded ==
    clock > TimeoutTicks => \A j \in 1 .. Len(waiters) : waiters[j].state # "pending"

\* C8: the array the wait resolves with holds the jobs' results in submission
\* order, whatever order the workers completed them in.
C8_SubmissionOrder ==
    pc \in {"cacheWrite", "cleanup"} \/ (pc = "done" /\ pall.state = "resolved" /\ jobs # <<>>)
    => /\ Len(results) = Len(jobs)
       /\ \A k \in 1 .. Len(jobs) :
             /\ results[k] = jobs[k].returnvalue.v
             /\ results[k].chunkIndex = verifiedChunks[k].index
       /\ \A k \in 1 .. Len(aggregated.v.mood_timeline) :
             aggregated.v.mood_timeline[k].start = verifiedChunks[k].startTime

C8_Witness ==
    /\ pc = "done"
    /\ result.kind = "returned"
    /\ Len(results) = MaxChunks
    /\ outOfOrder

\* C9: with fewer worker slots than jobs, every submitted job reaches a
\* terminal state and the wait settles, provided every worker run ends.
C9_AllJobsTerminate ==
    /\ (jobs # <<>>) ~> AllJobsTerminal
    /\ (pc = "await") ~> (pall.state # "pending")
    /\ [](Cardinality(ActiveJobs) <= Concurrency)

C9_Witness ==
    /\ Len(jobs) > Concurrency
    /\ AllJobsTerminal
    /\ \E j \in 1 .. Len(jobs) : jobs[j].state = "completed"
    /\ pall.state # "pending"

\* C10: no cache operation fails a request: with the backend absent or raising
\* errors, reads yield no value, writes and invalidations change nothing, the
\* statistics report an unavailable cache, none of them throws, and a run
\* whose cache write failed still returns its aggregated result.
C10_CacheNeverFails ==
    /\ \A id \in VideoIds, status \in Statuses, err \in BOOLEAN :
          LET v == IF aggregated.some THEN aggregated.v ELSE EarlierResult
              get == getCachedResult(id, err)
              set == setCachedResult(id, v, CACHE_DEFAULT_TTL_SECONDS, err)
              inv == invalidateCache(id, err)
              stats == getCacheStats(status, err)
          IN /\ ~get.threw /\ ~set.threw /\ ~inv.threw /\ ~stats.threw
             /\ (redis = "null" \/ err) =>
                   /\ get.value = None
                   /\ set.store = store
                   /\ inv.store = store
                   /\ stats = [threw |-> FALSE, available |-> FALSE, keys |-> 0]
    /\ cacheWriteFailed =>
          /\ pc \in {"cleanup", "done"}
          /\ error = <<>>
          /\ (pc = "done" => result = Returned(aggregated.v))

C10_Witness ==
    cacheWriteFailed /\ pc = "done" /\ result.kind = "returned"

\* C11: the cache entry of a video id is written only by analyzeVideo's cache
\* write, only for the run's own id, only after every job of the run completed
\* and the aggregation was computed, and at most once per run; a run that
\* throws has written nothing.
C11_CacheWrittenOnlyOnSuccess ==
    /\ [][\A id \in VideoIds :
            (store'[id] # store[id] /\ store'[id].has) =>
                /\ pc = "cacheWrite" /\ pc' = "cleanup"
                /\ videoId = Some(id)
                /\ ~calls.cacheWrite
                /\ jobs # <<>>
                /\ \A j \in 1 .. Len(jobs) : jobs[j].state = "completed"
                /\ pall.state = "resolved"
                /\ aggregated = Some(aggregateResults(results))
                /\ store'[id] = [has |-> TRUE, json |-> JSONstringify(aggregated.v),
                                 ttl |-> CACHE_DEFAULT_TTL_SECONDS]]_vars
    /\ [](result.kind = "thrown" => ~calls.cacheWrite /\ aggregated = None)

C11_Witness ==
    /\ pc = "done"
    /\ calls.cacheWrite
    /\ ~cacheWriteFailed
    /\ store["vidA"].has
    /\ store["vidA"].json = JSONstringify(aggregated.v)

\* C14: a URL that is not valid, or from which no video id can be extracted,
\* makes analyzeVideo throw InvalidYouTubeUrlException before any cache read,
\* download, job submission or file operation.
C14_InvalidUrlFailsFirst ==
    (youtubeUrl \in Urls /\ (~isValidUrl(youtubeUrl) \/ ~getVideoId(youtubeUrl).some)) =>
        /\ pc = "done"
        /\ result = Thrown(<<"Invalid YouTube URL", youtubeUrl>>)
        /\ videoId = None
        /\ cacheRead = NoRead
        /\ calls = NoCalls
        /\ fs = FreshFs
        /\ jobs = <<>>

C14_Witness ==
    youtubeUrl = "noId" /\ pc = "done" /\ result.kind = "thrown"

\* C15: for a non-empty list of chunk results the overall mood is a label of
\* the list whose accumulated confidence is maximal among the labels of the list
C15_OverallMoodIsMaximal ==
    (aggregated.some /\ results # <<>>) =>
        /\ aggregated.v.overall_mood \in Labels(results)
        /\ \A l \in Labels(results) :
              MoodScore(results, aggregated.v.overall_mood, 1) >= MoodScore(results, l, 1)

\* C16: when several labels tie for the maximal accumulated confidence, the
\* overall mood is the tied label that appears first in the input
C16_FirstTiedLabelWins ==
    (aggregated.some /\ Cardinality(MaxLabels(results)) >= 2) =>
        aggregated.v.overall_mood = FirstOf(results, MaxLabels(results))

C18_TimelineFollowsInput ==
    aggregated.some =>
        /\ Len(aggregated.v.mood_timeline) = Len(results)
        /\ \A i \in 1 .. Len(results) :
              /\ aggregated.v.mood_timeline[i].start = results[i].startTime
              /\ aggregated.v.mood_timeline[i].end = results[i].endTime
              /\ aggregated.v.mood_timeline[i].mood = results[i].moodResult.primary_mood
              /\ aggregated.v.mood_timeline[i].confidence = results[i].moodResult.confidence

\* a list that is not in time order has been aggregated
C18_Witness ==
    /\ aggregated.some
    /\ Len(results) >= 2
    /\ results[1].startTime > results[2].startTime
    /\ aggregated.v.mood_timeline[1].start > aggregated.v.mood_timeline[2].start

C20_ChunkPlan ==
    pc = "extract" =>
        LET D == dc.duration
            n == dc.chunkCount
            L == 15
        IN /\ D > 0
           /\ n * L >= D /\ (n - 1) * L < D
           /\ D - (n - 1) * L > 0 /\ D - (n - 1) * L <= L
           /\ \A k \in 1 .. Len(dc.chunks) :
                 LET c == dc.chunks[k]
                 IN /\ c.index \in 0 .. (n - 1)
                    /\ c.startTime = c.index * L
                    /\ c.endTime = IF (c.index + 1) * L < D THEN (c.index + 1) * L ELSE D
                    /\ c.index < n - 1 => c.endTime - c.startTime = L
                    /\ c.index = n - 1 => c.endTime - c.startTime = D - (n - 1) * L

\* a video whose last chunk is shorter than the others has been cut
C20_Witness ==
    /\ pc = "extract"
    /\ dc.duration = 16
    /\ dc.chunkCount = 2
    /\ Len(dc.chunks) = 2
    /\ dc.chunks[2].endTime - dc.chunks[2].startTime = 1

\* C12: with a working backend a read of id returns the value last stored
\* under id while its time to live has not elapsed; once the time to live has
\* elapsed or the id was invalidated the read returns nothing, as for an id
\* never stored; what is done to one id changes no read of another id
C12_SetThenGet ==
    /\ [](\A id \in VideoIds : getCachedResult(id, FALSE).value = Live(id))
    /\ [][\A id \in VideoIds :
            (/\ <<videoId, cacheRead, result>>' # <<videoId, cacheRead, result>>
             /\ videoId' = Some(id)
             /\ cacheRead' # "error") => result'.value = Live(id)']_vars

\* one id was read back within its time to live, the other one after its end
C12_Witness ==
    /\ written["vidA"].some /\ clock < written["vidA"].until
    /\ written["vidB"].some /\ clock >= written["vidB"].until
    /\ videoId = Some("vidA")
    /\ cacheRead = "hit"
    /\ result.value = Some(written["vidA"].v)
    /\ Len(written["vidA"].v.mood_timeline) = 3
    /\ ~getCachedResult("vidB", FALSE).value.some

\* C13: two calls for the same video that both miss the cache are not
\* deduplicated. A call that missed and returns has downloaded into a
\* directory of its own, run one job per chunk, aggregated the results of its
\* own jobs and written the cache; a step of one call changes no directory of
\* the other call and every job works on the files of the call that added it;
\* when no inference fails both calls return, and the cache then holds the
\* result of one of them.
C13_NoDeduplication ==
    /\ [](\A r \in Runs :
            LET me == conc.run[r]
                mine == JobsOf(conc, r)
            IN (me.pc = "done" /\ me.missed /\ me.result.kind = "returned") =>
                  /\ me.dir \in conc.used
                  /\ Len(mine) = calculateChunkCount(conc.duration)
                  /\ \A k \in 1 .. Len(mine) : conc.jobs[mine[k]].state = "completed"
                  /\ me.result =
                        Returned(aggregateResults([k \in 1 .. Len(mine) |->
                                                     conc.jobs[mine[k]].value.v]))
                  /\ me.wrote)
    /\ [](\A k \in 1 .. Len(conc.jobs) :
            /\ conc.jobs[k].dir = conc.run[conc.jobs[k].run].dir
            /\ conc.jobs[k].dir # conc.run[Other(conc.jobs[k].run)].dir)
    /\ [][\A d \in DirIds :
            conc'.dirs[d] # conc.dirs[d] =>
                \E r \in Runs :
                    /\ conc'.run[r] # conc.run[r]
                    /\ conc'.run[r].dir = d
                    /\ conc.run[Other(r)].dir # d]_vars
    /\ []((/\ \A r \in Runs : conc.run[r].pc = "done" /\ conc.run[r].missed
            /\ \A k \in 1 .. Len(conc.jobs) : conc.jobs[k].reason # "inference") =>
               /\ \A r \in Runs : conc.run[r].result.kind = "returned" /\ conc.run[r].wrote
               /\ store["vidA"].has
               /\ \E r \in Runs :
                     store["vidA"].json = JSONstringify(conc.run[r].result.value.v))

\* both calls missed, ran to the end and returned different results; the cache
\* holds the result of the second call
C13_Witness ==
    /\ \A r \in Runs : /\ conc.run[r].pc = "done"
                        /\ conc.run[r].missed
                        /\ conc.run[r].result.kind = "returned"
                        /\ conc.run[r].wrote
    /\ conc.run[1].result # conc.run[2].result
    /\ conc.run[1].dir # conc.run[2].dir
    /\ store["vidA"].json = JSONstringify(conc.run[2].result.value.v)
    /\ store["vidA"].json # JSONstringify(conc.run[1].result.value.v)

\* downloadAndChunk ended with no chunk to return
NoChunkSurvived ==
    error \in {<<"Failed to extract any chunks from the video">>,
               <<"No valid chunks were extracted">>}

\* C21: when no chunk survives extraction and verification the run fails
\* with that error, no job is submitted, and the artifacts of the run are
\* deleted before the error reaches the caller
C21_NoChunkRunCleansUp ==
    (pc = "done" /\ NoChunkSurvived) =>
        /\ result = Thrown(error)
        /\ jobs = <<>>
        /\ ~calls.submit
        /\ ~ArtifactsLeft(fs)

\* C22: with the cache backend unreachable (no client, or a client whose
\* connection is not ready) analyzeVideo skips the cache read and the cache
\* write, runs the pipeline and returns the aggregated result: no value is
\* taken from the cache, nothing is written, and only a failure of the
\* pipeline itself can make the run throw
C22_UnreachableCacheIsDisabledCache ==
    /\ [][\A err \in BOOLEAN :
            CacheCheck("reconnecting", err) =>
                pc' = "download" /\ cacheRead' = "miss" /\ result' = NoResult]_vars
    /\ [][\A err \in BOOLEAN :
            CacheWrite("reconnecting", err) =>
                /\ pc' = "cleanup"
                /\ store' = store
                /\ calls'.cacheWrite = calls.cacheWrite
                /\ ~cacheWriteFailed']_vars
    /\ [](redis = "null" =>
            /\ store = [id \in VideoIds |-> NoEntry]
            /\ cacheRead # "hit"
            /\ ~calls.cacheWrite /\ ~cacheWriteFailed
            /\ pc \in {"cleanup", "done"} /\ error = <<>> /\ videoId.some =>
                  /\ calls.download /\ calls.verify /\ calls.submit
                  /\ aggregated = Some(aggregateResults(results))
                  /\ pc = "done" => result = Returned(aggregated.v))

C22_Witness ==
    /\ redis = "null"
    /\ pc = "done"
    /\ calls.submit
    /\ ~calls.cacheWrite
    /\ result.kind = "returned"
    /\ result.value = aggregated

\* C23: the results handed to aggregateResults are in strictly ascending
\* chunk index order, whatever order the jobs completed in and whichever
\* chunks were dropped during extraction
C23_AscendingChunkIndex ==
    aggregated.some =>
        /\ aggregated.v = aggregateResults(results)
        /\ Len(results) = Len(verifiedChunks)
        /\ \A i \in 1 .. Len(results), j \in 1 .. Len(results) :
              i < j => results[i].chunkIndex < results[j].chunkIndex

\* the first chunk of a video of MaxChunks chunks was dropped during extraction
\* and the results of the others were aggregated
C23_Witness ==
    /\ aggregated.some
    /\ dc.chunkCount = MaxChunks
    /\ Len(results) = MaxChunks - 1
    /\ results[1].chunkIndex = 1

\* C24: a job is added as queued, goes from queued to active and from active
\* to completed or to failed, and makes no other move: completed and failed
\* jobs stay as they are, and a failed job is not run again
C24_JobLifecycle ==
    [][IF jobs = <<>>
       THEN \A j \in 1 .. Len(jobs') : jobs'[j].state = "waiting"
       ELSE /\ Len(jobs') = Len(jobs)
            /\ \A j \in 1 .. Len(jobs) :
                  /\ jobs'[j].chunk = jobs[j].chunk
                  /\ \/ jobs'[j] = jobs[j]
                     \/ jobs[j].state = "waiting" /\ jobs'[j].state = "active"
                     \/ jobs[j].state = "active" /\ jobs'[j].state \in {"completed", "failed"}
                  /\ Terminal(jobs[j]) => jobs'[j] = jobs[j]]_vars

\* one job of the run completed, another one failed, and the run is over
C24_Witness ==
    /\ pc = "done"
    /\ \E j \in 1 .. Len(jobs) : jobs[j].state = "completed"
    /\ \E j \in 1 .. Len(jobs) : jobs[j].state = "failed"

\* waiter j settles in this step, in polling mode
PollingWaiterSettles(j) ==
    /\ ~queueEvents
    /\ j \in 1 .. Len(waiters)
    /\ waiters[j].state = "pending"
    /\ waiters'[j].state # "pending"

\* the three ways to settle: completed observed, failed observed, timeout
SettledByJobOrTimeout(j) ==
    \/ jobs[j].state = "completed" /\ waiters'[j] = Resolved(jobs[j].returnvalue)
    \/ /\ jobs[j].state = "failed"
       /\ waiters'[j] = Rejected(<<"Job failed: ">> \o jobs[j].failedReason)
    \/ clock >= TimeoutTicks /\ waiters'[j] = jobTimeout

\* C25 as stated: a polling waiter settles only when it observes completed,
\* observes failed, or the timeout elapses; every other outcome of a poll
\* leaves it waiting
C25_SettlesOnlyOnJobOrTimeout ==
    [][\A j \in 1 .. Len(waiters) : PollingWaiterSettles(j) => SettledByJobOrTimeout(j)]_vars

\* C25 amended: a polling waiter polls at most once per interval and settles
\* when it observes completed (resolving with the return value), observes
\* failed (rejecting with the failure reason), when the poll itself raises an
\* error (rejecting with that error), or when the timeout elapses (rejecting
\* with the timeout error); a poll that observes any other state leaves it
\* waiting
C25_SettlesOnJobErrorOrTimeout ==
    /\ [][\A j \in 1 .. Len(waiters) :
            PollingWaiterSettles(j) =>
                \/ SettledByJobOrTimeout(j)
                \/ waiters'[j] = Rejected(<<"getState failed">>)]_vars
    /\ [][\A j \in 1 .. Len(waiters) :
            (~queueEvents /\ Len(waiters') = Len(waiters) /\ ~Terminal(jobs[j])
             /\ clock < TimeoutTicks /\ waiters[j].state = "pending") =>
                waiters'[j] \in {Pending, Rejected(<<"getState failed">>)}]_vars
    /\ [][\A j \in 1 .. Len(polled) :
            (~queueEvents /\ clock' = clock /\ polled[j] /\ Len(polled') = Len(polled)) =>
                waiters'[j] \in {waiters[j], jobTimeout}]_vars

\* a poll raised an error and rejected the waiter of a job that was not over
C25_Witness ==
    /\ ~queueEvents
    /\ \E j \in 1 .. Len(waiters) :
          /\ waiters[j] = Rejected(<<"getState failed">>)
          /\ ~Terminal(jobs[j])
          /\ clock < TimeoutTicks

\* C30: a polling waiter settles at most once; once it has settled (job
\* completed, job failed, poll error or timeout) its interval and its timeout
\* timer are cancelled: no poll of the job's state and no timeout callback
\* runs for it afterwards
C30_SettledWaiterIsQuiet ==
    /\ [][\A j \in 1 .. Len(waiters) :
            (~queueEvents /\ waiters[j].state # "pending") =>
                waiters'[j] = waiters[j] /\ polled'[j] = polled[j]]_vars
    /\ [](\A j \in 1 .. Len(waiters) :
            (~queueEvents /\ waiters[j].state # "pending") =>
                /\ ~polled[j]
                /\ \A err \in BOOLEAN : ~ENABLED Poll(j, err)
                /\ ~ENABLED PollTimeout(j))

\* every polling waiter of a run with MaxChunks jobs has settled, one of them
\* by the timeout
C30_Witness ==
    /\ ~queueEvents
    /\ Len(waiters) = MaxChunks
    /\ \A j \in 1 .. Len(waiters) : waiters[j].state # "pending"
    /\ \E j \in 1 .. Len(waiters) : waiters[j] = jobTimeout
    /\ clock >= TimeoutTicks

\* C26: when process fails after frame extraction was started, the frame
\* files and the frame directory of the chunk are gone when the error is
\* propagated
C26_FramesCleanedOnFailure ==
    (proc.pc = "done" /\ proc.outcome.kind = "thrown" /\ proc.started) =>
        ~proc.dir /\ proc.files = {}

\* C27: process fails without calling the inference backend when the chunk's
\* video file does not exist at the start, and when frame extraction yields
\* no frame
C27_NoInferenceWithoutFrames ==
    /\ (proc.pc \notin {"none", "verify"} /\ proc.video = "absent") =>
          /\ proc.outcome = Thrown(<<"Video chunk file does not exist">>)
          /\ ~proc.started
          /\ ~proc.inference
    /\ (proc.pc \notin {"none", "verify", "extract"} /\ proc.video # "absent"
        /\ proc.frames = <<>>) =>
          /\ proc.outcome.kind = "thrown"
          /\ ~proc.inference
    /\ ~(proc.pc = "none") /\ proc.inference => proc.frames # <<>> /\ proc.video # "absent"

\* a run that extracted no frame has thrown without an inference call
C27_Witness ==
    /\ proc.pc = "done"
    /\ proc.started
    /\ proc.dir
    /\ proc.frames = <<>>
    /\ proc.outcome = Thrown(<<"Failed to extract frames from chunk">>)
    /\ ~proc.inference

\* C28: extraction is attempted once for every chunk index 0 .. count - 1, in
\* order; a failed extraction does not end the loop, its partial files are
\* removed, and the chunk list holds exactly the indices that were extracted
C28_FailedChunkIsDropped ==
    /\ [][(pc = "extract" /\ dc' # dc) =>
            /\ pc' = "extract"
            /\ error' = error
            /\ dc'.i = dc.i + 1
            /\ dc'.chunks \in {dc.chunks, Append(dc.chunks, Chunk(dc.i, dc.duration))}]_vars
    /\ [](pc = "extract" =>
            /\ dc.i \in 0 .. dc.chunkCount
            /\ \A k \in 1 .. Len(dc.chunks) : dc.chunks[k].index < dc.i
            /\ \A k \in 1 .. (Len(dc.chunks) - 1) :
                  dc.chunks[k].index < dc.chunks[k + 1].index
            /\ \A i \in ChunkIdx :
                  IF \E k \in 1 .. Len(dc.chunks) : dc.chunks[k].index = i
                  THEN fs.video[i] = "ok" /\ fs.audio[i] = "ok"
                  ELSE fs.video[i] = "absent" /\ fs.audio[i] = "absent")

\* the first chunk could not be cut and the loop went on to cut the last one
C28_Witness ==
    /\ pc = "extract"
    /\ dc.chunkCount = MaxChunks
    /\ dc.i = dc.chunkCount
    /\ Len(dc.chunks) = MaxChunks - 1
    /\ dc.chunks[1].index = 1
    /\ fs.video[0] = "absent" /\ fs.audio[0] = "absent"

\* C29: every chunk in the list downloadAndChunk returns has its video file
\* and its audio file on disk, also when two adjacent chunks of the list
\* failed the check
C29_ReturnedChunksHaveFiles ==
    (pc = "verify" /\ ~calls.verify) =>
        \A k \in 1 .. Len(chunks) :
            /\ fs.video[chunks[k].index] # "absent"
            /\ fs.audio[chunks[k].index] # "absent"
====
